---- MODULE Spec2Model ----
(***************************************************************************)
(* Model of scripts/parse-shortcuts.py (name normalisation and the        *)
(* category / group / shortcut builder) and of scripts/generate-tree.py   *)
(* (the two renderers and the statistics block).                          *)
(*                                                                         *)
(* Strings are sequences of one-character strings, so that the regular    *)
(* expressions, split(), lower() and capitalize() are computed character  *)
(* by character.  Python dicts are ordered mappings: sequences of         *)
(* [k, v] pairs with the insertion semantics of dict.__setitem__.         *)
(***************************************************************************)
EXTENDS Integers, Sequences, FiniteSets, TLC

(***************************************************************************)
(* Characters                                                              *)
(***************************************************************************)
UpperCase == <<"A","B","C","D","E","F","G","H","I","J","K","L","M",
               "N","O","P","Q","R","S","T","U","V","W","X","Y","Z">>
LowerCase == <<"a","b","c","d","e","f","g","h","i","j","k","l","m",
               "n","o","p","q","r","s","t","u","v","w","x","y","z">>
Digits == {"0","1","2","3","4","5","6","7","8","9"}

Range(f) == {f[x] : x \in DOMAIN f}

IndexOf(c, tbl) == CHOOSE n \in DOMAIN tbl : tbl[n] = c

\* str.lower() / str.upper() on one character
lower(c) == IF c \in Range(UpperCase) THEN LowerCase[IndexOf(c, UpperCase)] ELSE c
upper(c) == IF c \in Range(LowerCase) THEN UpperCase[IndexOf(c, LowerCase)] ELSE c

\* \s of the regular expressions and the separators of str.split()
IsSpace(c) == c \in {" ", "\t", "\n"}

\* [a-zA-Z0-9]
IsAlnum(c) == c \in Range(UpperCase) \cup Range(LowerCase) \cup Digits

(***************************************************************************)
(* Literals of the regular expressions                                     *)
(***************************************************************************)
Marker == <<"D","O","_","N","O","T","_","L","O","C","A","L","I","Z","E",":">>
AxDescription == <<"(","A","X","_","D","E","S","C","R","I","P","T","I","O","N",")">>
WindowManagement == <<"(","w","i","n","d","o","w"," ","m","a","n","a","g","e","m","e","n","t",")">>

HasPrefix(s, p) == Len(s) >= Len(p) /\ SubSeq(s, 1, Len(p)) = p
HasSuffix(s, p) == Len(s) >= Len(p) /\ SubSeq(s, Len(s) - Len(p) + 1, Len(s)) = p

Drop(s, n) == SubSeq(s, n + 1, Len(s))
Take(s, n) == SubSeq(s, 1, n)

RECURSIVE LStripSpace(_)
LStripSpace(s) == IF s # <<>> /\ IsSpace(s[1]) THEN LStripSpace(Drop(s, 1)) ELSE s

RECURSIVE RStripSpace(_)
RStripSpace(s) ==
  IF s # <<>> /\ IsSpace(s[Len(s)]) THEN RStripSpace(Take(s, Len(s) - 1)) ELSE s

\* re.sub(r'^DO_NOT_LOCALIZE:\s*', '', s): one match at the start only
SubMarker(s) == IF HasPrefix(s, Marker) THEN LStripSpace(Drop(s, Len(Marker))) ELSE s

\* re.sub(r'\s*LIT$', '', s): the $ anchor matches at the end and before a final newline
SubSuffix(s, lit) ==
  IF HasSuffix(s, lit) THEN RStripSpace(Take(s, Len(s) - Len(lit)))
  ELSE IF HasSuffix(s, lit \o <<"\n">>)
       THEN RStripSpace(Take(s, Len(s) - Len(lit) - 1)) \o <<"\n">>
       ELSE s

\* re.sub(r'[/\-]', ' ', s)
SubSpecial(s) == [n \in DOMAIN s |-> IF s[n] \in {"/", "-"} THEN " " ELSE s[n]]

\* s.split()
RECURSIVE WordLen(_, _)
WordLen(t, n) == IF n < Len(t) /\ ~IsSpace(t[n + 1]) THEN WordLen(t, n + 1) ELSE n

RECURSIVE split(_), SplitWords(_), SplitAt(_, _)
split(s) == SplitWords(LStripSpace(s))
SplitWords(t) == IF t = <<>> THEN <<>> ELSE SplitAt(t, WordLen(t, 0))
SplitAt(t, w) == <<Take(t, w)>> \o split(Drop(t, w))

\* word.lower()
lowerAll(w) == [n \in DOMAIN w |-> lower(w[n])]

capitalize_keep(w) == [n \in DOMAIN w |-> IF n = 1 THEN upper(w[n]) ELSE w[n]]

\* word.capitalize(): first character upper-cased, the rest lower-cased
capitalize(w) == [n \in DOMAIN w |-> IF n = 1 THEN upper(w[n]) ELSE lower(w[n])]

\* re.sub(r'[^a-zA-Z0-9]', '', result)
SubNonAlnum(s) == SelectSeq(s, IsAlnum)

RECURSIVE ConcatCap(_)
ConcatCap(ws) == IF ws = <<>> THEN <<>> ELSE capitalize(Head(ws)) \o ConcatCap(Tail(ws))

\* lines 25-35: the words the identifier is made of
CamelWords(s0) ==
  split(SubSpecial(SubSuffix(SubSuffix(SubMarker(s0), AxDescription), WindowManagement)))

\* lines 37-48
Camel(words) ==
  IF words = <<>> THEN <<>>
  ELSE SubNonAlnum(lowerAll(words[1]) \o ConcatCap(Tail(words)))

to_camel_case(s0) == Camel(CamelWords(s0))

clean_name(s) == SubMarker(s)

(***************************************************************************)
(* Python values: None, dict.get, ordered dicts                            *)
(***************************************************************************)
None == [none |-> TRUE]

\* d.get(f, default)
get(d, f, default) == IF f \in DOMAIN d THEN d[f] ELSE default

HasKey(m, k) == \E n \in DOMAIN m : m[n].k = k
Lookup(m, k) == m[CHOOSE n \in DOMAIN m : m[n].k = k].v
Keys(m) == [n \in DOMAIN m |-> m[n].k]
Values(m) == [n \in DOMAIN m |-> m[n].v]

Put_moveToEnd(m, k, v) ==
  Append(SelectSeq(m, LAMBDA e : e.k # k), [k |-> k, v |-> v])

\* m[k] = v : a new key is appended, an existing key keeps its position
Put(m, k, v) ==
  IF HasKey(m, k)
  THEN [n \in DOMAIN m |-> IF m[n].k = k THEN [k |-> k, v |-> v] ELSE m[n]]
  ELSE Append(m, [k |-> k, v |-> v])

(***************************************************************************)
(* parse-shortcuts.py : the builder                                        *)
(***************************************************************************)
\* raw attribute -> attribute of the shortcut record (lines 83-100)
CopyThrough == { <<"key", "defaultKey">>, <<"modifier", "defaultModifier">>,
                 <<"charKey", "defaultCharKey">>, <<"enabled", "defaultEnabled">>,
                 <<"slow_sybmolichotkey", "slowId">>, <<"identifier", "identifier">> }

Copied(element) ==
  LET present == {p \in CopyThrough : p[1] \in DOMAIN element}
      src(t) == (CHOOSE p \in present : p[2] = t)[1]
  IN [t \in {p[2] : p \in present} |-> element[src(t)]]

RECURSIVE parse_shortcut_element(_), parse_group(_), GroupLoop(_, _)

\* lines 76-102
ShortcutRecord(element) ==
  [id |-> element.sybmolichotkey,
   name |-> clean_name(element.name),
   nixName |-> to_camel_case(element.name)] @@ Copied(element)

parse_shortcut_element_containerFirst(element) ==
  IF get(element, "name", <<>>) = <<>> THEN None
  ELSE IF get(element, "node_class", "") = "DisplayOnlyNode" THEN None
  ELSE IF get(element, "elements", <<>>) # <<>> THEN parse_group(element)
  ELSE IF "sybmolichotkey" \notin DOMAIN element THEN None
  ELSE ShortcutRecord(element)

parse_shortcut_element(element) ==
  IF get(element, "name", <<>>) = <<>> THEN None
  ELSE IF get(element, "node_class", "") = "DisplayOnlyNode" THEN None
  ELSE IF "sybmolichotkey" \notin DOMAIN element
       THEN IF get(element, "elements", <<>>) # <<>>
            THEN parse_group(element)
            ELSE None
       ELSE ShortcutRecord(element)

\* the body of the for loop of parse_group (lines 118-127)
GroupStore(shortcuts, elem, parsed) ==
  IF parsed = None THEN shortcuts
  ELSE IF "shortcuts" \in DOMAIN parsed
       THEN Put(shortcuts,
                get(parsed, "nixName", to_camel_case(get(elem, "name", <<>>))),
                parsed)
       ELSE IF get(parsed, "nixName", <<>>) # <<>>
            THEN Put(shortcuts, parsed.nixName, parsed)
            ELSE shortcuts

\* the for loop of parse_group (lines 116-127)
GroupLoop(elements, shortcuts) ==
  IF elements = <<>> THEN shortcuts
  ELSE GroupLoop(Tail(elements),
                 GroupStore(shortcuts, Head(elements),
                            parse_shortcut_element(Head(elements))))

GroupRecord_keepEmpty(group, shortcuts) ==
  [name |-> clean_name(group.name),
   nixName |-> to_camel_case(group.name),
   identifier |-> get(group, "identifier", ""),
   shortcuts |-> shortcuts]

\* lines 129-137
GroupRecord(group, shortcuts) ==
  IF shortcuts = <<>> THEN None
  ELSE [name |-> clean_name(group.name),
        nixName |-> to_camel_case(group.name),
        identifier |-> get(group, "identifier", ""),
        shortcuts |-> shortcuts]

parse_group(group) ==
  IF get(group, "name", <<>>) = <<>> THEN None
  ELSE IF get(group, "elements", <<>>) = <<>> THEN None
  ELSE GroupRecord(group, GroupLoop(group.elements, <<>>))

\* lines 155-159; acc = [shortcuts, subgroups]
StoreSubgroup(acc, parsed) ==
  IF parsed # None /\ get(parsed, "nixName", <<>>) # <<>>
  THEN [acc EXCEPT !.subgroups = Put(@, parsed.nixName, parsed)]
  ELSE acc

\* lines 161-165
StoreShortcut(acc, parsed) ==
  IF parsed # None /\ "id" \in DOMAIN parsed /\ get(parsed, "nixName", <<>>) # <<>>
  THEN [acc EXCEPT !.shortcuts = Put(@, parsed.nixName, parsed)]
  ELSE acc

\* the for loop of parse_category (lines 152-165)
RECURSIVE CategoryLoop(_, _)
CategoryLoop(elements, acc) ==
  IF elements = <<>> THEN acc
  ELSE CategoryLoop(Tail(elements),
         IF "elements" \in DOMAIN Head(elements)
            /\ "sybmolichotkey" \notin DOMAIN Head(elements)
         THEN StoreSubgroup(acc, parse_group(Head(elements)))
         ELSE StoreShortcut(acc, parse_shortcut_element(Head(elements))))

CategoryRecord_dropEmpty(category, acc) ==
  IF acc.shortcuts = <<>> /\ acc.subgroups = <<>> THEN None
  ELSE [name |-> clean_name(category.name),
        nixName |-> to_camel_case(category.name),
        identifier |-> category.identifier]
       @@ (IF acc.shortcuts # <<>> THEN [shortcuts |-> acc.shortcuts] ELSE <<>>)
       @@ (IF acc.subgroups # <<>> THEN [subgroups |-> acc.subgroups] ELSE <<>>)

\* lines 167-178
CategoryRecord(category, acc) ==
  [name |-> clean_name(category.name),
   nixName |-> to_camel_case(category.name),
   identifier |-> category.identifier]
  @@ (IF acc.shortcuts # <<>> THEN [shortcuts |-> acc.shortcuts] ELSE <<>>)
  @@ (IF acc.subgroups # <<>> THEN [subgroups |-> acc.subgroups] ELSE <<>>)

parse_category(category) ==
  IF get(category, "name", <<>>) = <<>> \/ get(category, "identifier", "") = "" THEN None
  ELSE CategoryRecord(category,
                      CategoryLoop(get(category, "elements", <<>>),
                                   [shortcuts |-> <<>>, subgroups |-> <<>>]))

\* the body of the loop of main (lines 201-205)
StoreParsed(cats, parsed) ==
  IF parsed # None /\ get(parsed, "nixName", <<>>) # <<>>
  THEN Put(cats, parsed.nixName, parsed)
  ELSE cats

StoreCategory(cats, category) == StoreParsed(cats, parse_category(category))

\* the whole loop of main (lines 199-205) over a document
RECURSIVE BuildCategories(_, _)
BuildCategories(doc, cats) ==
  IF doc = <<>> THEN cats
  ELSE BuildCategories(Tail(doc), StoreCategory(cats, Head(doc)))

RECURSIVE SumSeq(_)
SumSeq(q) == IF q = <<>> THEN 0 ELSE Head(q) + SumSeq(Tail(q))

\* the summary printed by main (lines 222-230)
Summary(cats) ==
  SumSeq([n \in DOMAIN cats |->
            Len(get(cats[n].v, "shortcuts", <<>>))
            + SumSeq([g \in DOMAIN get(cats[n].v, "subgroups", <<>>) |->
                        Len(get(cats[n].v.subgroups[g].v, "shortcuts", <<>>))])])

(***************************************************************************)
(* generate-tree.py : the renderers                                        *)
(* A line is the sequence of the pieces its f-string joins: the literal   *)
(* pieces are one token each, keys and names contribute their characters. *)
(***************************************************************************)
RECURSIVE Flatten(_)
Flatten(qq) == IF qq = <<>> THEN <<>> ELSE Head(qq) \o Flatten(Tail(qq))

\* the backquote character of the output formats
BT == "BACKQUOTE"

truthy(d, f) == f \in DOMAIN d /\ d[f] = TRUE

IdStr_always(sd, include_ids) ==
  IF "id" \in DOMAIN sd THEN <<" (ID: " \o ToString(sd.id) \o ")">> ELSE <<>>

IdStr(sd, include_ids) ==
  IF include_ids /\ "id" \in DOMAIN sd
  THEN <<" (ID: " \o ToString(sd.id) \o ")">> ELSE <<>>

TextShortcutLine(indent, key, sd, include_ids, include_dynamic) ==
  <<indent \o "- ", BT>> \o key \o <<BT, " - **">> \o get(sd, "name", key) \o <<"**">>
  \o IdStr(sd, include_ids)
  \o (IF include_dynamic /\ truthy(sd, "dynamic") THEN <<" [dynamic]">> ELSE <<>>)

TextSubgroupLines(key, gd, include_ids, include_dynamic) ==
  << <<"    - ", BT>> \o key \o <<BT, " (**">> \o get(gd, "name", key) \o <<"**)">> >>
  \o [n \in DOMAIN get(gd, "shortcuts", <<>>) |->
        TextShortcutLine("      ", gd.shortcuts[n].k, gd.shortcuts[n].v,
                         include_ids, include_dynamic)]

TextCategoryLines(key, cd, include_ids, include_dynamic) ==
  LET shortcuts == get(cd, "shortcuts", <<>>)
      subgroups == get(cd, "subgroups", <<>>)
  IN << <<"  - ", BT>> \o key \o <<BT, " (**">> \o get(cd, "name", key) \o <<"**)">> >>
     \o [n \in DOMAIN shortcuts |->
           TextShortcutLine("    ", shortcuts[n].k, shortcuts[n].v,
                            include_ids, include_dynamic)]
     \o Flatten([n \in DOMAIN subgroups |->
           TextSubgroupLines(subgroups[n].k, subgroups[n].v,
                             include_ids, include_dynamic)])

generate_text_tree(d, include_ids, include_dynamic) ==
  LET categories == get(d, "categories", <<>>)
  IN << <<BT, "darwin.symbolicHotkeys", BT>> >>
     \o Flatten([n \in DOMAIN categories |->
           TextCategoryLines(categories[n].k, categories[n].v,
                             include_ids, include_dynamic)])

MdShortcutLine(indent, key, sd, include_ids, include_dynamic) ==
  <<indent \o "- ", BT>> \o key \o <<BT, " - ">> \o get(sd, "name", key)
  \o IdStr(sd, include_ids)
  \o (IF include_dynamic /\ truthy(sd, "dynamic") THEN <<" " \o BT \o "[dynamic]" \o BT>> ELSE <<>>)

MdSubgroupLines(key, gd, include_ids, include_dynamic) ==
  << <<"  - **">> \o key \o <<"** (">> \o get(gd, "name", key) \o <<")">> >>
  \o [n \in DOMAIN get(gd, "shortcuts", <<>>) |->
        MdShortcutLine("    ", gd.shortcuts[n].k, gd.shortcuts[n].v,
                       include_ids, include_dynamic)]

MdCategoryLines(key, cd, include_ids, include_dynamic) ==
  LET shortcuts == get(cd, "shortcuts", <<>>)
      subgroups == get(cd, "subgroups", <<>>)
  IN << <<"- **">> \o key \o <<"** (">> \o get(cd, "name", key) \o <<")">> >>
     \o [n \in DOMAIN shortcuts |->
           MdShortcutLine("  ", shortcuts[n].k, shortcuts[n].v,
                          include_ids, include_dynamic)]
     \o Flatten([n \in DOMAIN subgroups |->
           MdSubgroupLines(subgroups[n].k, subgroups[n].v,
                           include_ids, include_dynamic)])

CountDynamic(m) == Len(SelectSeq(Values(m), LAMBDA sd : truthy(sd, "dynamic")))

\* the statistics loop (lines 98-108): [total_shortcuts, dynamic_count]
Statistics(categories) ==
  LET subs(n) == get(categories[n].v, "subgroups", <<>>)
  IN [total_shortcuts |->
        SumSeq([n \in DOMAIN categories |->
                  Len(get(categories[n].v, "shortcuts", <<>>))
                  + SumSeq([g \in DOMAIN subs(n) |->
                              Len(get(subs(n)[g].v, "shortcuts", <<>>))])]),
      dynamic_count |->
        SumSeq([n \in DOMAIN categories |->
                  CountDynamic(get(categories[n].v, "shortcuts", <<>>))
                  + SumSeq([g \in DOMAIN subs(n) |->
                              CountDynamic(get(subs(n)[g].v, "shortcuts", <<>>))])])]

NoteLine == <<"> **Note**: Shortcuts marked with ", BT, "[dynamic]", BT, " are dynamically created by macOS.">>

MdNote_flagged(d) ==
  IF Statistics(get(d, "categories", <<>>)).dynamic_count > 0
  THEN <<NoteLine, <<>> >> ELSE <<>>

\* lines 63-67
MdNote(d) == IF truthy(d, "dynamicShortcuts") THEN <<NoteLine, <<>> >> ELSE <<>>

generate_markdown_tree(d, include_ids, include_dynamic) ==
  LET categories == get(d, "categories", <<>>)
      stats == Statistics(categories)
  IN << <<"# darwin-symbolic-hotkeys Options Tree">>,
        <<>>,
        <<"Generated from version: ", get(d, "version", "unknown")>>,
        <<"Total categories: ", ToString(Len(categories))>>,
        <<>> >>
     \o MdNote(d)
     \o << <<"## darwin.symbolicHotkeys">>, <<>> >>
     \o Flatten([n \in DOMAIN categories |->
           MdCategoryLines(categories[n].k, categories[n].v,
                           include_ids, include_dynamic)])
     \o << <<>>,
           <<"## Statistics">>,
           <<>>,
           <<"- Total shortcuts: ", ToString(stats.total_shortcuts)>>,
           <<"- Dynamic shortcuts: ", ToString(stats.dynamic_count)>>,
           <<"- Categories: ", ToString(Len(categories))>> >>

(***************************************************************************)
(* Inputs                                                                  *)
(***************************************************************************)
\* longest list of sibling nodes in a raw document given to the builder
MaxElems == 3
\* longest list of sibling nodes in a raw document of the build-and-render pipeline
MaxTreeElems == 3
\* longest string, in pieces, given to the name functions
MaxChunks == 3

RECURSIVE SeqsUpTo(_, _)
SeqsUpTo(S, n) ==
  IF n = 0 THEN {<<>>}
  ELSE LET shorter == SeqsUpTo(S, n - 1)
       IN shorter \cup {Append(q, x) : q \in {r \in shorter : Len(r) = n - 1}, x \in S}

\* display names: keys "a", "a", "b", "" and "" ; the last one cleans to ""
Na == <<"a">>
NA == <<"A", "/">>
Nb == <<"b">>
NDash == <<"-">>
NMarker == Marker \o <<" ">>

sc(n, h) == [name |-> n, sybmolichotkey |-> h]
grp(n, els) == [name |-> n, elements |-> els]
cat(n, ident, els) == [name |-> n, identifier |-> ident, elements |-> els]

TopNodes ==
  { cat(Na, "ia", <<sc(Na, 1)>>),
    cat(NA, "iA", <<>>),
    cat(Nb, "ib", <<grp(Na, <<sc(Nb, 2)>>)>>),
    [name |-> Na, elements |-> <<sc(Na, 3)>>],
    cat(Nb, "", <<sc(Na, 4)>>),
    cat(NDash, "id", <<sc(Na, 5)>>),
    cat(NMarker, "im", <<>>),
    [identifier |-> "in", elements |-> <<sc(Na, 6)>>] }

CatChildren ==
  { sc(Na, 1),
    sc(NA, 2) @@ [key |-> "d", modifier |-> 1048576],
    sc(Nb, 3),
    sc(NDash, 4),
    sc(Na, 5) @@ [elements |-> <<sc(Nb, 6)>>],
    [sybmolichotkey |-> 7, elements |-> <<sc(Nb, 8)>>],
    sc(Nb, 9) @@ [node_class |-> "DisplayOnlyNode"],
    grp(Na, <<sc(Na, 10) @@ [elements |-> <<sc(Nb, 13)>>]>>),
    grp(NA, <<sc(Nb, 11)>>) @@ [identifier |-> "gA"],
    grp(Nb, <<sc(Na, 15)>>),
    grp(Nb, <<[sybmolichotkey |-> 12], [sybmolichotkey |-> 14]>>) }

GroupChildren ==
  { sc(Na, 1),
    sc(NA, 2),
    sc(Nb, 3) @@ [slow_sybmolichotkey |-> 30],
    sc(NDash, 4),
    sc(Nb, 5) @@ [elements |-> <<sc(Na, 6)>>],
    [sybmolichotkey |-> 7, elements |-> <<sc(Nb, 8)>>],
    grp(Na, <<sc(Nb, 9), sc(Na, 10)>>),
    grp(NMarker, <<sc(Na, 11)>>),
    grp(Nb, <<[sybmolichotkey |-> 12]>>) }

\* raw documents: siblings vary at one level, the levels above are fixed
Documents ==
  SeqsUpTo(TopNodes, MaxElems)
  \cup {<<cat(Na, "ia", els)>> : els \in SeqsUpTo(CatChildren, MaxElems)}
  \cup {<<cat(Na, "ia", <<grp(Nb, els)>>)>> : els \in SeqsUpTo(GroupChildren, MaxElems)}

TreeTopNodes ==
  { cat(Na, "ia", <<sc(Na, 1), grp(Nb, <<sc(Na, 2)>>)>>),
    cat(Nb, "ib", <<>>),
    cat(NA, "iA", <<grp(Na, <<grp(Nb, <<sc(Na, 3), sc(Nb, 4)>>)>>)>>) }

TreeCatChildren ==
  { sc(Na, 1),
    sc(Nb, 2),
    grp(Na, <<sc(Nb, 3)>>),
    grp(Nb, <<sc(Na, 4), grp(Nb, <<sc(Na, 5), sc(Nb, 6)>>)>>) }

TreeDocuments ==
  SeqsUpTo(TreeTopNodes, MaxTreeElems)
  \cup {<<cat(Na, "ia", els)>> : els \in SeqsUpTo(TreeCatChildren, MaxTreeElems)}

Chunks == { Marker, <<" ">>, <<"a">>, <<"b", "C">>, <<"-">>, <<"(">>, <<"\n">>,
            AxDescription, WindowManagement }

Strings == {Flatten(q) : q \in SeqsUpTo(Chunks, MaxChunks)}

(***************************************************************************)
(* State                                                                   *)
(***************************************************************************)
VARIABLES
  data,             \* parse-shortcuts.py main: the loaded raw document
  idx,              \* position of the loop over data (line 200)
  categories,       \* the ordered mapping built by the loop
  output,           \* the document written to symbolic-hotkeys.json
  total_shortcuts,  \* the total of the printed summary
  json,             \* generate-tree.py main: the document read back
  args,             \* its command line options
  lines,            \* the rendered lines
  pc,               \* position in the pipeline
  s,                \* a display name
  cleaned,          \* results of successive clean_name calls on s
  nix               \* result of to_camel_case(s), when computed

vars == <<data, idx, categories, output, total_shortcuts, json, args, lines, pc,
          s, cleaned, nix>>

buildVars == <<data, idx, categories, output, total_shortcuts>>
renderVars == <<json, args, lines>>
nameVars == <<s, cleaned, nix>>

InitFrom(docs) ==
  /\ data \in docs
  /\ idx = 1
  /\ categories = <<>>
  /\ output = None
  /\ total_shortcuts = 0
  /\ json = None
  /\ args = None
  /\ lines = <<>>
  /\ pc = "parse"
  /\ s = <<>>
  /\ cleaned = <<>>
  /\ nix = <<>>

Init == InitFrom(Documents)

InitTree == InitFrom(TreeDocuments)

InitNames ==
  /\ data = <<>>
  /\ idx = 1
  /\ categories = <<>>
  /\ output = None
  /\ total_shortcuts = 0
  /\ json = None
  /\ args = None
  /\ lines = <<>>
  /\ pc = "names"
  /\ s \in Strings
  /\ cleaned = <<>>
  /\ nix = <<>>

(***************************************************************************)
(* parse-shortcuts.py main                                                 *)
(***************************************************************************)
\* one iteration of the loop over the top-level nodes (lines 200-205)
ParseCategory ==
  /\ pc = "parse"
  /\ idx <= Len(data)
  /\ categories' = StoreCategory(categories, data[idx])
  /\ idx' = idx + 1
  /\ UNCHANGED <<data, output, total_shortcuts, pc>>
  /\ UNCHANGED renderVars
  /\ UNCHANGED nameVars

\* the output document, json.dump and the summary (lines 207-230)
WriteOutput ==
  /\ pc = "parse"
  /\ idx > Len(data)
  /\ output' = [version |-> "macOS 15.x (Sequoia)",
                generatedFrom |-> "DefaultShortcutsTable.xml",
                note |-> "Generated by parse-shortcuts.py. Do not edit manually.",
                categories |-> categories]
  /\ total_shortcuts' = Summary(categories)
  /\ pc' = "written"
  /\ UNCHANGED <<data, idx, categories>>
  /\ UNCHANGED renderVars
  /\ UNCHANGED nameVars

(***************************************************************************)
(* generate-tree.py main                                                   *)
(***************************************************************************)
\* the attributes generate-tree.py reads and parse-shortcuts.py never writes
MarkMap(m, on) ==
  [n \in DOMAIN m |->
     IF on /\ "id" \in DOMAIN m[n].v
     THEN [k |-> m[n].k, v |-> m[n].v @@ [dynamic |-> TRUE]]
     ELSE m[n]]

MarkCategory(cd, mark) ==
  [f \in DOMAIN cd |->
     IF f = "shortcuts" THEN MarkMap(cd[f], mark = "direct")
     ELSE IF f = "subgroups"
          THEN [g \in DOMAIN cd[f] |->
                  [k |-> cd[f][g].k,
                   v |-> [cd[f][g].v EXCEPT !.shortcuts = MarkMap(@, mark = "sub")]]]
          ELSE cd[f]]

Annotated(doc, top, mark) ==
  [doc EXCEPT !.categories =
     [n \in DOMAIN @ |-> [k |-> @[n].k, v |-> MarkCategory(@[n].v, mark)]]]
  @@ (IF top THEN [dynamicShortcuts |-> TRUE] ELSE <<>>)

\* json.load (lines 160-161): the file is the builder's document, possibly
\* carrying dynamic annotations added to it
LoadJson ==
  /\ pc = "written"
  /\ \E top \in BOOLEAN, mark \in {"none", "direct", "sub"} :
       json' = Annotated(output, top, mark)
  /\ pc' = "loaded"
  /\ UNCHANGED <<args, lines>>
  /\ UNCHANGED buildVars
  /\ UNCHANGED nameVars

\* lines 163-175
Generate(format, d, include_ids, include_dynamic) ==
  IF format = "markdown"
  THEN generate_markdown_tree(d, include_ids, include_dynamic)
  ELSE generate_text_tree(d, include_ids, include_dynamic)

Render ==
  /\ pc = "loaded"
  /\ \E format \in {"text", "markdown"}, no_ids \in BOOLEAN, no_dynamic \in BOOLEAN :
       /\ args' = [format |-> format, no_ids |-> no_ids, no_dynamic |-> no_dynamic]
       /\ lines' = Generate(format, json, ~no_ids, ~no_dynamic)
  /\ pc' = "rendered"
  /\ UNCHANGED json
  /\ UNCHANGED buildVars
  /\ UNCHANGED nameVars

(***************************************************************************)
(* The name functions applied to a string                                  *)
(***************************************************************************)
CleanName ==
  /\ pc = "names"
  /\ Len(cleaned) < 2
  /\ cleaned' = Append(cleaned, clean_name(IF cleaned = <<>> THEN s ELSE cleaned[Len(cleaned)]))
  /\ UNCHANGED <<s, nix, pc>>
  /\ UNCHANGED buildVars
  /\ UNCHANGED renderVars

ToCamelCase ==
  /\ pc = "names"
  /\ nix = <<>>
  /\ nix' = <<to_camel_case(s)>>
  /\ UNCHANGED <<s, cleaned, pc>>
  /\ UNCHANGED buildVars
  /\ UNCHANGED renderVars

Next == ParseCategory \/ WriteOutput

NextTree == ParseCategory \/ WriteOutput \/ LoadJson \/ Render

NextNames == CleanName \/ ToCamelCase

Spec == Init /\ [][Next]_vars

SpecTree == InitTree /\ [][NextTree]_vars

SpecNames == InitNames /\ [][NextNames]_vars

(***************************************************************************)
(* Properties of the name functions (SpecNames)                            *)
(***************************************************************************)
\* C2: name cleaning is idempotent: cleaning a cleaned name changes nothing,
\* also when the marker occurs more than once at the start.
C2_CleanIdempotent == Len(cleaned) = 2 => cleaned[2] = cleaned[1]

WordAsIs(w) == [j \in DOMAIN w |-> IF j = 1 THEN upper(w[j]) ELSE w[j]]

\* C3 as stated: the first word lower-cased, every later word with its first
\* character upper-cased and the rest left as it is, concatenated, and only
\* then stripped of the characters that are not ASCII letters or digits.
C3_RestLeftAsIs ==
  nix # <<>> =>
    LET words == CamelWords(s)
    IN nix[1] = IF words = <<>> THEN <<>>
                ELSE SubNonAlnum(lowerAll(words[1])
                                 \o Flatten([n \in 1..(Len(words) - 1) |-> WordAsIs(words[n + 1])]))

\* C3 amended: every later word has its first character upper-cased and the
\* rest of its characters lower-cased; the characters that are not ASCII
\* letters or digits are removed after the change of case.
C3_RestLowered ==
  nix # <<>> =>
    LET words == CamelWords(s)
        cased(n) == [j \in DOMAIN words[n] |->
                       IF n > 1 /\ j = 1 THEN upper(words[n][j]) ELSE lower(words[n][j])]
    IN nix[1] = Flatten([n \in DOMAIN words |-> SelectSeq(cased(n), IsAlnum)])

\* a key was computed from a name with an upper-case character inside a later word
C3_Witness ==
  /\ nix # <<>>
  /\ LET words == CamelWords(s)
     IN \E n \in 2..Len(words) : \E j \in 2..Len(words[n]) :
          words[n][j] \in Range(UpperCase)

(***************************************************************************)
(* Entries of a built tree                                                 *)
(***************************************************************************)
IsGroup(e) == "shortcuts" \in DOMAIN e
IsShortcut(e) == "id" \in DOMAIN e

\* every value stored in a mapping of groups and shortcuts, nested ones included
RECURSIVE EntriesIn(_)
EntriesIn(m) ==
  Flatten([n \in DOMAIN m |->
             <<m[n].v>> \o (IF IsGroup(m[n].v) THEN EntriesIn(m[n].v.shortcuts) ELSE <<>>)])

CategoryEntries(cd) ==
  Values(get(cd, "shortcuts", <<>>)) \o EntriesIn(get(cd, "subgroups", <<>>))

TreeEntries(cats) == Flatten([n \in DOMAIN cats |-> CategoryEntries(cats[n].v)])

\* number of shortcut records of a tree
RecordCount(cats) == Len(SelectSeq(TreeEntries(cats), IsShortcut))

\* the entries the renderers visit: direct shortcuts and the entries of subgroups
RenderedEntries(cats) ==
  Flatten([n \in DOMAIN cats |->
     Values(get(cats[n].v, "shortcuts", <<>>))
     \o Flatten([g \in DOMAIN get(cats[n].v, "subgroups", <<>>) |->
                   Values(get(cats[n].v.subgroups[g].v, "shortcuts", <<>>))])])

(***************************************************************************)
(* Properties of the renderers (SpecTree)                                  *)
(***************************************************************************)
AnyDynamic(d) ==
  \E n \in DOMAIN RenderedEntries(d.categories) :
     truthy(RenderedEntries(d.categories)[n], "dynamic")

ReportRendered == pc = "rendered" /\ args.format = "markdown"

\* C4 as stated: in report mode the note about dynamic shortcuts is in the
\* output if and only if some rendered shortcut is flagged dynamic.
C4_NoteIffFlagged == ReportRendered => (NoteLine \in Range(lines) <=> AnyDynamic(json))

\* C4 amended: in report mode the note is in the output if and only if the
\* document has a true top-level dynamicShortcuts entry.
C4_NoteIffTopLevel ==
  ReportRendered => (NoteLine \in Range(lines) <=> truthy(json, "dynamicShortcuts"))

\* a report with the note although no shortcut is flagged
C4_Witness ==
  ReportRendered /\ truthy(json, "dynamicShortcuts") /\ ~AnyDynamic(json)
  /\ RenderedEntries(json.categories) # <<>>

IdAnnotations(d) ==
  LET entries == TreeEntries(d.categories)
  IN {" (ID: " \o ToString(entries[n].id) \o ")" :
        n \in {i \in DOMAIN entries : IsShortcut(entries[i])}}

DynamicAnnotations == {" [dynamic]", " " \o BT \o "[dynamic]" \o BT}

StripAnnotations(anns, line) == SelectSeq(line, LAMBDA tok : tok \notin anns)

\* C5: in both modes the two toggles change nothing but the presence of the
\* id and dynamic annotations: same number of lines, same entries in the
\* same order, same statistics; with ids off no line carries an id annotation.
C5_TogglesOnlyAnnotate ==
  pc = "rendered" =>
    LET idAnns == IdAnnotations(json)
        anns == idAnns \cup DynamicAnnotations
        stripped == [n \in DOMAIN lines |-> StripAnnotations(anns, lines[n])]
    IN /\ \A ids \in BOOLEAN, dyn \in BOOLEAN :
            LET other == Generate(args.format, json, ids, dyn)
            IN /\ Len(other) = Len(lines)
               /\ \A n \in DOMAIN lines : StripAnnotations(anns, other[n]) = stripped[n]
       /\ args.no_ids => \A n \in DOMAIN lines : Range(lines[n]) \cap idAnns = {}
       /\ args.no_dynamic =>
            \A n \in DOMAIN lines : Range(lines[n]) \cap DynamicAnnotations = {}

\* rendered with both toggles off a tree that has ids and dynamic flags to show
C5_Witness ==
  /\ pc = "rendered" /\ args.no_ids /\ args.no_dynamic
  /\ LET full == Generate(args.format, json, TRUE, TRUE)
         idAnns == IdAnnotations(json)
     IN \E n \in DOMAIN full :
          /\ Range(full[n]) \cap idAnns # {}
          /\ Range(full[n]) \cap DynamicAnnotations # {}

LinesWithId ==
  LET idAnns == IdAnnotations(json)
  IN {n \in DOMAIN lines : Range(lines[n]) \cap idAnns # {}}

\* C10: the total of the statistics block and the total of the build summary
\* equal the number of shortcut records of the built tree, and every record
\* is rendered on exactly one line.
C10_TotalsCountRecords ==
  pc = "rendered" =>
    /\ total_shortcuts = RecordCount(categories)
    /\ args.format = "markdown" =>
         <<"- Total shortcuts: ", ToString(RecordCount(json.categories))>> \in Range(lines)
    /\ ~args.no_ids => Cardinality(LinesWithId) = RecordCount(json.categories)

(***************************************************************************)
(* Properties of the builder (Spec)                                        *)
(***************************************************************************)
NameOf(e) == get(e, "name", <<>>)
KeyOf(e) == to_camel_case(NameOf(e))

\* a top-level node with a non-empty name and a non-empty identifier
Valid(node) == NameOf(node) # <<>> /\ get(node, "identifier", "") # ""

\* C1: every emitted category has a non-empty name and a non-empty identifier
\* (one carried by a top-level node), and every group and shortcut reachable
\* from it, nested groups included, has a non-empty name.
C1_NamesNonEmpty ==
  output # None =>
    \A n \in DOMAIN categories :
      LET c == categories[n].v
          entries == CategoryEntries(c)
      IN /\ c.name # <<>>
         /\ c.identifier # ""
         /\ \E m \in DOMAIN data : get(data[m], "identifier", "") = c.identifier
         /\ \A i \in DOMAIN entries : entries[i].name # <<>>

\* the emitted category made from a top-level node
EmittedAs(node, c) ==
  c.identifier = get(node, "identifier", "") /\ c.name = clean_name(NameOf(node))

\* C6 as stated: every top-level node with a non-empty name and a non-empty
\* identifier is emitted as a category.
C6_EveryValidEmitted ==
  output # None =>
    \A m \in DOMAIN data :
      Valid(data[m]) => \E n \in DOMAIN categories : EmittedAs(data[m], categories[n].v)

\* the top-level node m is the last valid one with its (non-empty) key
LastOfKey(m) ==
  /\ Valid(data[m])
  /\ KeyOf(data[m]) # <<>>
  /\ \A m2 \in DOMAIN data :
       m2 > m /\ Valid(data[m2]) => KeyOf(data[m2]) # KeyOf(data[m])

\* C6 amended: every top-level node with a non-empty name, a non-empty
\* identifier and a non-empty synthesized key is emitted under that key, even
\* with neither shortcuts nor subgroups, unless a later such node has the
\* same key; a node lacking name or identifier, or whose key is empty, is
\* left out.
C6_ValidKeyedEmitted ==
  output # None =>
    /\ \A m \in DOMAIN data :
         LastOfKey(m) =>
           /\ HasKey(categories, KeyOf(data[m]))
           /\ EmittedAs(data[m], Lookup(categories, KeyOf(data[m])))
    /\ \A n \in DOMAIN categories :
         /\ categories[n].k # <<>>
         /\ \E m \in DOMAIN data :
              LastOfKey(m) /\ KeyOf(data[m]) = categories[n].k

\* a category with neither shortcuts nor subgroups was emitted
C6_Witness ==
  /\ output # None
  /\ \E n \in DOMAIN categories :
       /\ "shortcuts" \notin DOMAIN categories[n].v
       /\ "subgroups" \notin DOMAIN categories[n].v
       /\ \E m \in DOMAIN data :
            LastOfKey(m) /\ EmittedAs(data[m], categories[n].v)

IsGroupNode(e) == "elements" \in DOMAIN e /\ "sybmolichotkey" \notin DOMAIN e

\* a group node that has children, none of which has a name
DeadGroup(e) ==
  /\ IsGroupNode(e)
  /\ e.elements # <<>>
  /\ \A i \in DOMAIN e.elements : NameOf(e.elements[i]) = <<>>

\* the raw node without its dead groups, at every depth
RECURSIVE PruneNode(_)
PruneNode(e) ==
  IF "elements" \in DOMAIN e
  THEN [e EXCEPT !.elements =
          SelectSeq([i \in DOMAIN @ |-> PruneNode(@[i])], LAMBDA x : ~DeadGroup(x))]
  ELSE e

\* C7: no group with an empty shortcuts mapping exists anywhere in the built
\* tree, and a group node whose children are all discarded for lacking a name
\* leaves no trace: the tree is the one built without such nodes.
C7_NoEmptyGroup ==
  output # None =>
    /\ LET entries == TreeEntries(categories)
       IN \A i \in DOMAIN entries : IsGroup(entries[i]) => entries[i].shortcuts # <<>>
    /\ categories = BuildCategories([m \in DOMAIN data |-> PruneNode(data[m])], <<>>)

\* an emitted category or group whose raw node has a dead group among its children
C7_Witness ==
  /\ output # None
  /\ \E m \in DOMAIN data :
       /\ LastOfKey(m)
       /\ \E i \in DOMAIN get(data[m], "elements", <<>>) :
            LET e == data[m].elements[i]
            IN \/ DeadGroup(e)
               \/ /\ IsGroupNode(e) /\ parse_group(e) # None
                  /\ \E j \in DOMAIN e.elements : DeadGroup(e.elements[j])

\* a node with a hotkey identifier and children
IdWithChildren(e) == "sybmolichotkey" \in DOMAIN e /\ get(e, "elements", <<>>) # <<>>

\* the group node at position i of els is the one its parent's subgroups keep
LastGroupOfKey(els, i) ==
  /\ IsGroupNode(els[i])
  /\ parse_group(els[i]) # None
  /\ KeyOf(els[i]) # <<>>
  /\ \A i2 \in DOMAIN els :
       i2 > i /\ IsGroupNode(els[i2]) /\ parse_group(els[i2]) # None
         => KeyOf(els[i2]) # KeyOf(els[i])

\* the mapping m holds a shortcut record, not a group, with the id of node e
HoldsShortcutOf(m, e) ==
  \E n \in DOMAIN m :
    IsShortcut(m[n].v) /\ m[n].v.id = e.sybmolichotkey /\ ~IsGroup(m[n].v)

\* the raw node without the children of its id-bearing descendants
RECURSIVE StripNode(_)
StripNode(e) ==
  IF "sybmolichotkey" \in DOMAIN e
  THEN [f \in DOMAIN e \ {"elements"} |-> e[f]]
  ELSE IF "elements" \in DOMAIN e
       THEN [e EXCEPT !.elements = [i \in DOMAIN @ |-> StripNode(@[i])]]
       ELSE e

StripTop(node) ==
  IF "elements" \in DOMAIN node
  THEN [node EXCEPT !.elements = [i \in DOMAIN @ |-> StripNode(@[i])]]
  ELSE node

ChildrenIgnored == categories = BuildCategories([m \in DOMAIN data |-> StripTop(data[m])], <<>>)

\* for every id-bearing node with children, directly in an emitted category
\* (mapping: the category's shortcuts) or in an emitted subgroup
ForIdNodesWithChildren(P(_, _, _, _)) ==
  \A m \in DOMAIN data :
    LastOfKey(m) =>
      /\ HasKey(categories, KeyOf(data[m]))
      /\ LET c == Lookup(categories, KeyOf(data[m]))
             els == get(data[m], "elements", <<>>)
         IN \A i \in DOMAIN els :
              /\ IdWithChildren(els[i]) => P(get(c, "shortcuts", <<>>), els, i, FALSE)
              /\ LastGroupOfKey(els, i) =>
                   /\ HasKey(get(c, "subgroups", <<>>), KeyOf(els[i]))
                   /\ \A j \in DOMAIN els[i].elements :
                        IdWithChildren(els[i].elements[j]) =>
                          P(Lookup(c.subgroups, KeyOf(els[i])).shortcuts,
                            els[i].elements, j, TRUE)

Kept(els, i) ==
  /\ NameOf(els[i]) # <<>>
  /\ get(els[i], "node_class", "") # "DisplayOnlyNode"
  /\ KeyOf(els[i]) # <<>>
  /\ \A i2 \in DOMAIN els : i2 > i => KeyOf(els[i2]) # KeyOf(els[i])

RECURSIVE FirstOccurrences(_)
FirstOccurrences(ks) ==
  IF ks = <<>> THEN <<>>
  ELSE <<Head(ks)>> \o FirstOccurrences(SelectSeq(Tail(ks), LAMBDA k : k # Head(ks)))

LastStored(st, k) ==
  st[CHOOSE i \in DOMAIN st : st[i].k = k /\ \A j \in DOMAIN st : j > i => st[j].k # k].v

\* m has one entry per key of st, placed at the first encounter of the key
\* and holding the content of the last sibling with that key
FirstPlaceLastContent(m, st) ==
  /\ Keys(m) = FirstOccurrences(Keys(st))
  /\ \A n \in DOMAIN m : m[n].v = LastStored(st, m[n].k)

\* the siblings that store into each mapping, in raw order, with what they store
StoredTop ==
  SelectSeq([m \in DOMAIN data |-> [k |-> KeyOf(data[m]), v |-> parse_category(data[m])]],
            LAMBDA p : p.v # None /\ p.k # <<>>)

StoredShortcuts(els) ==
  SelectSeq([i \in DOMAIN els |->
               [k |-> KeyOf(els[i]),
                v |-> IF IsGroupNode(els[i]) THEN None ELSE parse_shortcut_element(els[i])]],
            LAMBDA p : p.v # None /\ IsShortcut(p.v) /\ p.k # <<>>)

StoredSubgroups(els) ==
  SelectSeq([i \in DOMAIN els |->
               [k |-> KeyOf(els[i]),
                v |-> IF IsGroupNode(els[i]) THEN parse_group(els[i]) ELSE None]],
            LAMBDA p : p.v # None /\ p.k # <<>>)

StoredInGroup(els) ==
  SelectSeq([i \in DOMAIN els |->
               [k |-> KeyOf(els[i]), v |-> parse_shortcut_element(els[i])]],
            LAMBDA p : p.v # None /\ (IsGroup(p.v) \/ p.k # <<>>))

\* C9: in the top-level categories, a category's shortcuts, a category's
\* subgroups and a group's shared mapping, siblings with the same key leave
\* exactly one entry, with the content of the later sibling, at the position
\* of the first encounter of the key; the other entries keep the raw order.
C9_CollisionKeepsFirstPlace ==
  output # None =>
    /\ FirstPlaceLastContent(categories, StoredTop)
    /\ \A m \in DOMAIN data :
         LastOfKey(m) =>
           /\ HasKey(categories, KeyOf(data[m]))
           /\ LET c == Lookup(categories, KeyOf(data[m]))
                  els == get(data[m], "elements", <<>>)
              IN /\ FirstPlaceLastContent(get(c, "shortcuts", <<>>), StoredShortcuts(els))
                 /\ FirstPlaceLastContent(get(c, "subgroups", <<>>), StoredSubgroups(els))
                 /\ \A i \in DOMAIN els :
                      LastGroupOfKey(els, i) =>
                        /\ HasKey(get(c, "subgroups", <<>>), KeyOf(els[i]))
                        /\ FirstPlaceLastContent(
                             Lookup(c.subgroups, KeyOf(els[i])).shortcuts,
                             StoredInGroup(els[i].elements))

\* the stored siblings have keys x, y, x
Collides(st) ==
  \E i, j, l \in DOMAIN st :
    i < j /\ j < l /\ st[i].k = st[l].k /\ st[j].k # st[i].k /\ st[i].v # st[l].v

\* a collision around another key in a group's shared mapping
C9_Witness ==
  /\ output # None
  /\ \E m \in DOMAIN data :
       /\ LastOfKey(m)
       /\ \E i \in DOMAIN get(data[m], "elements", <<>>) :
            /\ LastGroupOfKey(data[m].elements, i)
            /\ Collides(StoredInGroup(data[m].elements[i].elements))

C9_WitnessTop == output # None /\ Collides(StoredTop)

C9_WitnessShortcuts ==
  output # None /\ \E m \in DOMAIN data :
    LastOfKey(m) /\ Collides(StoredShortcuts(get(data[m], "elements", <<>>)))

C9_WitnessSubgroups ==
  output # None /\ \E m \in DOMAIN data :
    LastOfKey(m) /\ Collides(StoredSubgroups(get(data[m], "elements", <<>>)))
====
